---- MODULE Spec2Model ----
(***************************************************************************)
(* Conversational slot-filling session store of                            *)
(* nested_schemas/tc_conversational_slot_filling/                          *)
(* process_conversational_profile.py: the process-wide SESSIONS mapping    *)
(* and the four operations start / update / finalize / status, with the    *)
(* pure helpers calculate_completeness, get_next_prompt and                *)
(* merge_profile_data.                                                     *)
(*                                                                         *)
(* JSON values are tagged: a scalar is [t |-> "s", v |-> <string>], a      *)
(* number is [t |-> "n", n |-> <integer>], a mapping is                    *)
(* [t |-> "d", m |-> <function from keys to values>].  A profile (and      *)
(* every request body) is the bare function of a mapping.                  *)
(***************************************************************************)
EXTENDS Integers, Sequences, FiniteSets, TLC

\* SESSIONS: the store; now: the clock; last: the most recent call of a
\* function of the module (its name, arguments and result); http: the most
\* recent HTTP response with its request (status 0 before any); threads: the update
\* calls in flight in the threads of the server, statement by statement (in
\* SpecRace the two update calls; in SpecRaceEnd the two calls and the session
\* record their local variable `session` refers to, which outlives its
\* removal from the store).
VARIABLES SESSIONS, now, last, http, threads

vars == <<SESSIONS, now, last, http, threads>>

\* ------------------------------------------------------------------ bounds
\* Spec applies an update to a session only while conversation_turn < MaxTurns.
MaxTurns == 2
\* SpecSession does so while conversation_turn < DeepTurns.
DeepTurns == 4
\* The clock runs over 0..MaxClock.
MaxClock == 1
\* SpecPrompt passes missing lists of at most MaxList paths.
MaxList == 2
\* SpecChain registers an employee under at most MaxChain - 1 managers, one
\* more than the traversal of register_employee visits.
MaxChain == 12
\* register_employee.py line 118: if hierarchy_levels > 10
MaxDepth == 10

\* Outcomes of "SESSION-" + str(uuid.uuid4())[:8].upper(), and an id the
\* generator never returns.
IdPool == {"SESSION-0A1B2C3D", "SESSION-4E5F6A7B"}
NoId == "SESSION-00000000"

\* ------------------------------------------------------------- JSON values
S(x) == [t |-> "s", v |-> x]
N(x) == [t |-> "n", n |-> x]
D(f) == [t |-> "d", m |-> f]
L(q) == [t |-> "l", l |-> q]
B(x) == [t |-> "b", b |-> x]
Null == [t |-> "z"]
EmptyDict == [k \in {} |-> S("")]

\* isinstance(x, dict), isinstance(x, str)
IsDict(x) == x.t = "d"
IsStr(x) == x.t = "s"
\* Python truthiness: "", 0, {}, [], False and None are falsy.
Truthy(x) ==
    CASE x.t = "d" -> DOMAIN x.m # {}
      [] x.t = "s" -> x.v # ""
      [] x.t = "n" -> x.n # 0
      [] x.t = "l" -> Len(x.l) # 0
      [] x.t = "b" -> x.b
      [] x.t = "z" -> FALSE

\* dict.get(key, default)
Get(d, key, default) == IF key \in DOMAIN d THEN d[key] ELSE default
\* d[key] = value on a copy of d
Put(d, key, value) == [k \in DOMAIN d \cup {key} |-> IF k = key THEN value ELSE d[k]]

\* -------------------------------------------------- calculate_completeness
required_fields ==
    <<"name", "email", "type", "address.street", "address.city", "address.country">>
optional_fields ==
    <<"address.state", "address.zipcode", "contact.phone", "contact.mobile">>

\* field_path.split('.') on the dotted paths the program uses
Split(field_path) ==
    CASE field_path = "name" -> <<"name">>
      [] field_path = "email" -> <<"email">>
      [] field_path = "type" -> <<"type">>
      [] field_path = "address.street" -> <<"address", "street">>
      [] field_path = "address.city" -> <<"address", "city">>
      [] field_path = "address.country" -> <<"address", "country">>
      [] field_path = "address.state" -> <<"address", "state">>
      [] field_path = "address.zipcode" -> <<"address", "zipcode">>
      [] field_path = "contact.phone" -> <<"contact", "phone">>
      [] field_path = "contact.mobile" -> <<"contact", "mobile">>

RECURSIVE WalkPresent(_, _)
\* A variant that asks only for the key, whatever the truth value under it.
WalkPresent(current, parts) ==
    IF parts = <<>> THEN TRUE
    ELSE LET part == Head(parts) IN
         IF IsDict(current) /\ part \in DOMAIN current.m
         THEN WalkPresent(current.m[part], Tail(parts))
         ELSE FALSE

RECURSIVE Walk(_, _)
\* the loop of has_field: current is the value reached so far
Walk(current, parts) ==
    IF parts = <<>> THEN TRUE
    ELSE LET part == Head(parts) IN
         IF IsDict(current) /\ part \in DOMAIN current.m /\ Truthy(current.m[part])
         THEN Walk(current.m[part], Tail(parts))
         ELSE FALSE

has_field(data, field_path) == Walk(D(data), Split(field_path))

RECURSIVE Filter(_, _)
\* [f for f in fields if not has_field(profile, f)]
Filter(profile, fields) ==
    IF fields = <<>> THEN <<>>
    ELSE IF has_field(profile, Head(fields))
         THEN Filter(profile, Tail(fields))
         ELSE <<Head(fields)>> \o Filter(profile, Tail(fields))

\* A variant that truncates the quotient before it scales it.
PercentageOfWhole(completed_fields, total_fields) ==
    (completed_fields \div total_fields) * 100

\* int((completed_fields / total_fields) * 100) in IEEE double arithmetic:
\* for total_fields = 10 the float product is k*10 or k*10 + 4e-15, whose
\* truncation is k*10 for every k in 0..10.
Percentage(completed_fields, total_fields) == (completed_fields * 100) \div total_fields

calculate_completeness(profile) ==
    LET missing_required == Filter(profile, required_fields)
        missing_optional == Filter(profile, optional_fields)
        total_fields == Len(required_fields) + Len(optional_fields)
        completed_fields == total_fields - Len(missing_required) - Len(missing_optional)
    IN [percentage |-> Percentage(completed_fields, total_fields),
        missing_required |-> missing_required,
        missing_optional |-> missing_optional]

\* ----------------------------------------------------------- get_next_prompt
\* A prompt is the sequence of its text fragments.
PromptTable(field) ==
    CASE field = "name" -> <<"What's your name?">>
      [] field = "email" -> <<"Great! What's your email address?">>
      [] field = "type" -> <<"Are you an individual or corporate customer?">>
      [] field = "address.street" -> <<"What's your street address?">>
      [] field = "address.city" -> <<"Which city are you in?">>
      [] field = "address.country" -> <<"Which country are you in? (US, CA, or UK)">>
      [] OTHER -> <<"Please provide: ", field>>

\* A variant that asks for the last missing required field.
PromptOfLast(missing_required, missing_optional) ==
    IF missing_required = <<>> /\ missing_optional = <<>>
    THEN <<"Profile complete! Ready to submit?">>
    ELSE IF missing_required # <<>>
         THEN PromptTable(missing_required[Len(missing_required)])
         ELSE <<"Would you like to add contact information? (optional)">>

get_next_prompt(missing_required, missing_optional) ==
    IF missing_required = <<>> /\ missing_optional = <<>>
    THEN <<"Profile complete! Ready to submit?">>
    ELSE IF missing_required # <<>>
         THEN PromptTable(missing_required[1])
         ELSE IF missing_optional # <<>>
              THEN <<"Would you like to add contact information? (optional)">>
              ELSE <<"Profile complete! Ready to submit?">>

\* -------------------------------------------------------- merge_profile_data
RECURSIVE merge_profile_data(_, _)
RECURSIVE MergeLoop(_, _, _)

\* A variant that does not recurse: a key of updates replaces the entry.
ShallowMerge(existing, updates) ==
    [k \in DOMAIN existing \cup DOMAIN updates |->
        IF k \in DOMAIN updates THEN updates[k] ELSE existing[k]]

RECURSIVE MergeClearsEmpty(_, _)
RECURSIVE ClearLoop(_, _, _)
\* A variant in which an empty string removes the entry it meets.
ClearLoop(result, updates, keys) ==
    IF keys = {} THEN result
    ELSE LET key == CHOOSE k \in keys : TRUE
             value == updates[key]
             stepped ==
                 IF key \in DOMAIN result /\ IsDict(result[key]) /\ IsDict(value)
                 THEN Put(result, key, D(MergeClearsEmpty(result[key].m, value.m)))
                 ELSE IF key \in DOMAIN result /\ IsStr(value) /\ value.v = ""
                      THEN [k \in DOMAIN result \ {key} |-> result[k]]
                      ELSE Put(result, key, value)
         IN ClearLoop(stepped, updates, keys \ {key})

MergeClearsEmpty(existing, updates) == ClearLoop(existing, updates, DOMAIN updates)

\* the for-loop over updates.items(): result is the copy being built, keys
\* the keys of updates not yet visited
MergeLoop(result, updates, keys) ==
    IF keys = {} THEN result
    ELSE LET key == CHOOSE k \in keys : TRUE
             value == updates[key]
             stepped ==
                 IF key \in DOMAIN result /\ IsDict(result[key]) /\ IsDict(value)
                 THEN Put(result, key, D(merge_profile_data(result[key].m, value.m)))
                 ELSE Put(result, key, value)
         IN MergeLoop(stepped, updates, keys \ {key})

merge_profile_data(existing, updates) == MergeLoop(existing, updates, DOMAIN updates)

\* ------------------------------------------------------------ request data
\* Bodies of start requests.
StartInputs ==
    { EmptyDict,
      [name |-> S("John Doe")],
      [name |-> S("John Doe"), email |-> S("j@x.com")] }

U_contact_info == [email |-> S("j@x.com"), type |-> S("individual")]
U_address == [address |-> D([street |-> S("123 Main St"), city |-> S("NY"), country |-> S("US")])]
U_all == [email |-> S("j@x.com"), type |-> S("individual"),
          address |-> D([street |-> S("123 Main St"), city |-> S("NY"), country |-> S("US")])]
U_state == [address |-> D([state |-> S("NY")])]
U_street_empty == [address |-> D([street |-> S("")])]
U_address_scalar == [address |-> S("x")]
U_contact_scalar == [contact |-> S("x")]
U_optional == [address |-> D([state |-> S("NY"), zipcode |-> S("10001")]),
               contact |-> D([phone |-> S("555-0100"), mobile |-> S("555-0101")])]

\* Bodies of update requests sent to the store of Spec.
StoreUpdates == { U_all, U_street_empty }

\* Bodies of update requests sent in SpecSession.
Updates ==
    { U_contact_info, U_address, U_all, U_state, U_street_empty, U_address_scalar,
      U_contact_scalar }

U_nickname == [nickname |-> S("JD"),
               contact |-> D([fax |-> S("555-0102"), phone |-> S("")])]

\* Bodies of update requests sent in SpecFill: together they fill every
\* required and optional field, one empties a required field again, and one
\* brings keys that are no checklist fields.
FillUpdates == { U_all, U_optional, U_street_empty, U_nickname }

\* Session ids a client may send: every id of the pool and one never issued.
ClientIds == IdPool \cup {NoId}

\* --------------------------------------------------------------- the views
\* What start returns (lines 170-180).
StartView(session, c) ==
    [session_id |-> session.session_id,
     status |-> "in_progress",
     completeness_percentage |-> c.percentage,
     profile |-> session.profile,
     missing_required_fields |-> c.missing_required,
     missing_optional_fields |-> c.missing_optional,
     next_prompt |-> get_next_prompt(c.missing_required, c.missing_optional),
     conversation_turn |-> 1,
     created_at |-> session.created_at]

\* What update returns (lines 215-225).
UpdateView(session, c) ==
    [session_id |-> session.session_id,
     status |-> session.status,
     completeness_percentage |-> c.percentage,
     profile |-> session.profile,
     missing_required_fields |-> c.missing_required,
     missing_optional_fields |-> c.missing_optional,
     next_prompt |-> get_next_prompt(c.missing_required, c.missing_optional),
     conversation_turn |-> session.conversation_turn,
     updated_at |-> session.updated_at]

\* What status returns (lines 334-345).
StatusView(session, c) ==
    [session_id |-> session.session_id,
     status |-> session.status,
     completeness_percentage |-> c.percentage,
     profile |-> session.profile,
     missing_required_fields |-> c.missing_required,
     missing_optional_fields |-> c.missing_optional,
     next_prompt |-> get_next_prompt(c.missing_required, c.missing_optional),
     conversation_turn |-> session.conversation_turn,
     created_at |-> session.created_at,
     updated_at |-> session.updated_at]

\* The not-found result of update, finalize and status.
SessionNotFound == [error |-> "SESSION_NOT_FOUND"]

\* 'error' in result
IsError(result) == "error" \in DOMAIN result

\* ------------------------------------------------------------------- state
\* No request has been answered.
NoResponse ==
    [route |-> "none", session_id |-> NoId, data |-> EmptyDict, status |-> 0,
     body |-> EmptyDict]

Init ==
    /\ SESSIONS = [k \in {} |-> EmptyDict]
    /\ now = 0
    /\ last = [op |-> "none", session_id |-> NoId, data |-> EmptyDict, result |-> EmptyDict]
    /\ http = NoResponse
    /\ threads = <<>>

\* ------------------------------------------------------ start_profile_session
\* session_id is the first 8 hex digits of a random uuid4: any id of the pool,
\* whether or not the store holds it.  created_at and updated_at are two clock
\* reads.
\* A variant that takes every key of the request body into the profile.
InitialProfileAll(data) == Put(data, "name", Get(data, "name", S("Unknown")))

\* lines 151-153: profile = {"name": data.get("name", "Unknown")}
InitialProfile(data) == [name |-> Get(data, "name", S("Unknown"))]

start_profile_session(data) ==
    \E session_id \in IdPool : \E t1 \in now..MaxClock : \E t2 \in t1..MaxClock :
      LET profile == InitialProfile(data)
          c == calculate_completeness(profile)
          session == [session_id |-> session_id,
                      status |-> "in_progress",
                      profile |-> profile,
                      conversation_turn |-> 1,
                      created_at |-> t1,
                      updated_at |-> t2]
      IN /\ SESSIONS' = Put(SESSIONS, session_id, session)
         /\ now' = t2
         /\ last' = [op |-> "start", session_id |-> session_id, data |-> data,
                     result |-> StartView(session, c)]

\* ----------------------------------------------------- update_profile_session
\* A variant that stores a record for an id the store does not hold.
UpdateUnknownCreates(session_id, updates) ==
    /\ last' = [op |-> "update", session_id |-> session_id, data |-> updates,
                result |-> SessionNotFound]
    /\ SESSIONS' = Put(SESSIONS, session_id,
                       [session_id |-> session_id, status |-> "in_progress",
                        profile |-> updates, conversation_turn |-> 1,
                        created_at |-> now, updated_at |-> now])
    /\ now' = now

\* lines 193-197: the id is not in the store
UpdateUnknown(session_id, updates) ==
    /\ last' = [op |-> "update", session_id |-> session_id, data |-> updates,
                result |-> SessionNotFound]
    /\ UNCHANGED <<SESSIONS, now>>

\* A variant that does not count the turn.
TurnKept(conversation_turn) == conversation_turn

\* session["conversation_turn"] += 1
NextTurn(conversation_turn) == conversation_turn + 1

\* A variant that derives the status from the current completeness alone.
StatusRecomputed(status, missing_required) ==
    IF missing_required = <<>> THEN "complete" ELSE "in_progress"

\* A variant that never marks the session complete.
StatusKept(status, missing_required) == status

\* lines 211-213: if not missing_required: session["status"] = "complete"
NewStatus(status, missing_required) ==
    IF missing_required = <<>> THEN "complete" ELSE status

\* A variant that computes the completeness before it merges the updates.
UpdateStaleCompleteness(session_id, updates) ==
    IF session_id \notin DOMAIN SESSIONS
    THEN UpdateUnknown(session_id, updates)
    ELSE \E t \in now..MaxClock :
              LET old == SESSIONS[session_id]
                  c == calculate_completeness(old.profile)
                  session == [old EXCEPT !.profile = merge_profile_data(@, updates),
                                         !.conversation_turn = NextTurn(@),
                                         !.updated_at = t,
                                         !.status = NewStatus(@, c.missing_required)]
              IN /\ SESSIONS' = Put(SESSIONS, session_id, session)
                 /\ now' = t
                 /\ last' = [op |-> "update", session_id |-> session_id,
                             data |-> updates, result |-> UpdateView(session, c)]

update_profile_session(session_id, updates) ==
    IF session_id \notin DOMAIN SESSIONS
    THEN UpdateUnknown(session_id, updates)
    ELSE \E t \in now..MaxClock :
              LET old == SESSIONS[session_id]
                  profile == merge_profile_data(old.profile, updates)
                  c == calculate_completeness(profile)
                  session == [old EXCEPT !.profile = profile,
                                         !.conversation_turn = NextTurn(@),
                                         !.updated_at = t,
                                         !.status = NewStatus(@, c.missing_required)]
              IN /\ SESSIONS' = Put(SESSIONS, session_id, session)
                 /\ now' = t
                 /\ last' = [op |-> "update", session_id |-> session_id,
                             data |-> updates, result |-> UpdateView(session, c)]

\* ---------------------------------------------------------- get_session_status
\* A variant that counts a status call on a stored session as a turn.
StatusCountsTurn(session_id) ==
    IF session_id \notin DOMAIN SESSIONS
    THEN /\ last' = [op |-> "status", session_id |-> session_id, data |-> EmptyDict,
                     result |-> SessionNotFound]
         /\ UNCHANGED <<SESSIONS, now>>
    ELSE LET session == [SESSIONS[session_id] EXCEPT !.conversation_turn = @ + 1]
         IN /\ SESSIONS' = Put(SESSIONS, session_id, session)
            /\ now' = now
            /\ last' = [op |-> "status", session_id |-> session_id, data |-> EmptyDict,
                        result |-> StatusView(session,
                                              calculate_completeness(session.profile))]

get_session_status(session_id) ==
    /\ last' = [op |-> "status", session_id |-> session_id, data |-> EmptyDict,
                result |-> IF session_id \notin DOMAIN SESSIONS
                           THEN SessionNotFound
                           ELSE StatusView(SESSIONS[session_id],
                                  calculate_completeness(SESSIONS[session_id].profile))]
    /\ UNCHANGED <<SESSIONS, now>>

\* --------------------------------------------------- finalize_profile_session
RECURSIVE JoinParts(_)
\* [p for p in address_parts if p]: the parts ", ".join receives, in order
JoinParts(address_parts) ==
    IF address_parts = <<>> THEN <<>>
    ELSE IF Truthy(Head(address_parts))
         THEN <<Head(address_parts)>> \o JoinParts(Tail(address_parts))
         ELSE JoinParts(Tail(address_parts))

\* A variant that counts the top-level entries only.
CountTopLevel(profile, keys) == Cardinality({ k \in keys : Truthy(profile[k]) })

RECURSIVE CountFields(_, _)
\* the loop of lines 281-286 over the keys of profile not yet visited
CountFields(profile, keys) ==
    IF keys = {} THEN 0
    ELSE LET key == CHOOSE k \in keys : TRUE
             value == profile[key]
             inc == IF IsDict(value)
                    THEN Cardinality({k \in DOMAIN value.m : Truthy(value.m[k])})
                    ELSE IF Truthy(value) THEN 1 ELSE 0
         IN inc + CountFields(profile, keys \ {key})

\* One tick of the clock, in seconds.
SecondsPerTick == 90

\* A variant that rounds to the nearest minute.
MinutesRounded(seconds) == (seconds + 30) \div 60

\* line 278: minutes = int(time_diff.total_seconds() / 60), for a span that
\* is not negative
Minutes(seconds) == seconds \div 60

\* lines 273-278 and 304: the span between the two stamps in whole minutes
\* and the word f"minute{'s' if minutes != 1 else ''}" that follows it
TimeToComplete(created_at, updated_at) ==
    LET minutes == Minutes((updated_at - created_at) * SecondsPerTick)
    IN [minutes |-> minutes, unit |-> IF minutes # 1 THEN "minutes" ELSE "minute"]

\* The outcome of lines 258-306 on a session whose required fields are all
\* present, read at clock t: the result object, or the exception raised by
\* ", ".join on a non-string part or by .get on a contact that is no mapping.
\* The address is the sequence of the parts joined by ", "; the random
\* profile_id and the message texts are left out.
FinalizeResult(session, t) ==
    LET profile == session.profile
        address == Get(profile, "address", D(EmptyDict))
        address_parts == <<Get(address.m, "street", S("")),
                           Get(address.m, "city", S("")),
                           Get(address.m, "state", S("")),
                           Get(address.m, "zipcode", S("")),
                           Get(address.m, "country", S(""))>>
        joined == JoinParts(address_parts)
        contact == Get(profile, "contact", D(EmptyDict))
    IN IF \E i \in 1..Len(joined) : ~IsStr(joined[i])
       THEN [raised |-> "TypeError"]
       ELSE IF ~IsDict(contact)
       THEN [raised |-> "AttributeError"]
       ELSE [success |-> TRUE,
             customer_name |-> Get(profile, "name", S("Unknown")),
             customer_email |-> Get(profile, "email", S("Not provided")),
             customer_type |-> Get(profile, "type", S("Not specified")),
             address_formatted |-> [i \in 1..Len(joined) |-> joined[i].v],
             contact_phone |-> Get(contact.m, "phone", S("Not provided")),
             contact_mobile |-> Get(contact.m, "mobile", S("Not provided")),
             total_turns |-> session.conversation_turn,
             fields_collected |-> CountFields(profile, DOMAIN profile),
             time_to_complete |-> TimeToComplete(session.created_at, session.updated_at),
             finalized_at |-> t]

\* finalize returned its success result
IsSuccess(result) == "success" \in DOMAIN result

\* del SESSIONS[session_id]
Del(store, session_id) == [k \in DOMAIN store \ {session_id} |-> store[k]]

\* A variant that drops the session when it rejects it.
FinalizeIncompleteDrops(session_id, missing_required) ==
    /\ last' = [op |-> "finalize", session_id |-> session_id, data |-> EmptyDict,
                result |-> [error |-> "VALIDATION_ERROR",
                            missing_fields |-> missing_required,
                            session_id |-> session_id]]
    /\ SESSIONS' = Del(SESSIONS, session_id)
    /\ now' = now

\* lines 250-256: a required field is missing
FinalizeIncomplete(session_id, missing_required) ==
    /\ last' = [op |-> "finalize", session_id |-> session_id, data |-> EmptyDict,
                result |-> [error |-> "VALIDATION_ERROR",
                            missing_fields |-> missing_required,
                            session_id |-> session_id]]
    /\ UNCHANGED <<SESSIONS, now>>

\* A variant that keeps the session after submitting it.
FinalizeKeeps(store, session_id) == store

\* lines 308-309: clean up session
CleanUp(store, session_id) == Del(store, session_id)

finalize_profile_session(session_id) ==
    IF session_id \notin DOMAIN SESSIONS
    THEN /\ last' = [op |-> "finalize", session_id |-> session_id, data |-> EmptyDict,
                     result |-> SessionNotFound]
         /\ UNCHANGED <<SESSIONS, now>>
    ELSE LET session == SESSIONS[session_id]
             c == calculate_completeness(session.profile)
         IN IF c.missing_required # <<>>
            THEN FinalizeIncomplete(session_id, c.missing_required)
            ELSE \E t \in now..MaxClock :
                   LET result == FinalizeResult(session, t)
                   IN /\ last' = [op |-> "finalize", session_id |-> session_id,
                                  data |-> EmptyDict, result |-> result]
                      /\ IF IsSuccess(result)
                         THEN /\ SESSIONS' = CleanUp(SESSIONS, session_id)
                              /\ now' = t
                         ELSE UNCHANGED <<SESSIONS, now>>

\* --------------------------------------------------------------- the system
\* The turn counter is unbounded in the program: the model stops updating a
\* session at the bound.
TurnsLeft(session_id, bound) ==
    session_id \in DOMAIN SESSIONS => SESSIONS[session_id].conversation_turn < bound

\* Spec: the store under requests for every id of the pool.
\* The functions are called one at a time, directly (no HTTP response, no
\* call in flight).
Start ==
    /\ \E data \in StartInputs : start_profile_session(data)
    /\ UNCHANGED <<http, threads>>
Update ==
    /\ \E session_id \in ClientIds : \E updates \in StoreUpdates :
              /\ TurnsLeft(session_id, MaxTurns)
              /\ update_profile_session(session_id, updates)
    /\ UNCHANGED <<http, threads>>
Finalize ==
    /\ \E session_id \in ClientIds : finalize_profile_session(session_id)
    /\ UNCHANGED <<http, threads>>
Status ==
    /\ \E session_id \in ClientIds : get_session_status(session_id)
    /\ UNCHANGED <<http, threads>>

Next == Start \/ Update \/ Finalize \/ Status

Spec == Init /\ [][Next]_vars

\* SpecSession: one conversation at a time (a session is started only when the
\* store is empty), under the larger set of update bodies.
StartAlone == DOMAIN SESSIONS = {} /\ Start
UpdateDeep ==
    /\ \E session_id \in ClientIds : \E updates \in Updates :
                  /\ TurnsLeft(session_id, DeepTurns)
                  /\ update_profile_session(session_id, updates)
    /\ UNCHANGED <<http, threads>>

NextSession == StartAlone \/ UpdateDeep \/ Finalize \/ Status

SpecSession == Init /\ [][NextSession]_vars

\* SpecFill: one conversation at a time whose updates can fill the whole
\* profile, optional fields included.
UpdateFill ==
    /\ \E session_id \in ClientIds : \E updates \in FillUpdates :
                  /\ TurnsLeft(session_id, DeepTurns)
                  /\ update_profile_session(session_id, updates)
    /\ UNCHANGED <<http, threads>>

NextFill == StartAlone \/ UpdateFill \/ Finalize \/ Status

SpecFill == Init /\ [][NextFill]_vars

\* SpecMerge: merge_profile_data called on every pair of an existing mapping
\* whose scalars are "Main St" and an updates mapping whose scalars are "NY",
\* both of depth at most two over the keys below, and on the same pairs nested
\* one level deeper under "customer".
InnerMaps(scalar) == UNION { [ks -> {scalar}] : ks \in SUBSET {"street", "city"} }
OuterValues(scalar) == {scalar} \cup { D(m) : m \in InnerMaps(scalar) }
OuterMaps(scalar) ==
    UNION { [ks -> OuterValues(scalar)] : ks \in SUBSET {"address", "name"} }
MergeInputs ==
    LET Existing == OuterMaps(S("Main St"))
        Updating == OuterMaps(S("NY"))
    IN { [existing |-> e, updates |-> u] : e \in Existing, u \in Updating }
       \cup { [existing |-> [customer |-> D(e)], updates |-> [customer |-> D(u)]] :
                e \in Existing, u \in Updating }

InitMerge ==
    /\ SESSIONS = [k \in {} |-> EmptyDict]
    /\ now = 0
    /\ http = NoResponse
    /\ threads = <<>>
    /\ \E args \in MergeInputs :
         last = [op |-> "none", session_id |-> NoId, data |-> args, result |-> EmptyDict]

Merge ==
    /\ last.op = "none"
    /\ last' = [last EXCEPT !.op = "merge",
                            !.result = merge_profile_data(last.data.existing,
                                                          last.data.updates)]
    /\ UNCHANGED <<SESSIONS, now, http, threads>>

NextMerge == Merge

SpecMerge == InitMerge /\ [][NextMerge]_vars

\* SpecTwice: merge_profile_data called for two updates in a row and for the
\* two updates merged first, on a profile whose scalars are "Main St", a
\* first update whose scalars are "NY" and a second whose scalars are "US";
\* each holds, or not, a name and an address that is a scalar or a mapping
\* over street and city; and on the same triples one level deeper under
\* "customer".
TwiceMaps(scalar) ==
    { m \in OuterMaps(scalar) : "name" \in DOMAIN m => ~ IsDict(m.name) }
TwiceInputs ==
    LET Triples == { [profile |-> p, first |-> u1, second |-> u2] :
                       p \in TwiceMaps(S("Main St")), u1 \in TwiceMaps(S("NY")),
                       u2 \in TwiceMaps(S("US")) }
    IN Triples
       \cup { [profile |-> [customer |-> D(t.profile)],
               first |-> [customer |-> D(t.first)],
               second |-> [customer |-> D(t.second)]] : t \in Triples }

InitTwice ==
    /\ SESSIONS = [k \in {} |-> EmptyDict]
    /\ now = 0
    /\ http = NoResponse
    /\ threads = <<>>
    /\ \E args \in TwiceInputs :
         last = [op |-> "none", session_id |-> NoId, data |-> args, result |-> EmptyDict]

MergeTwice ==
    /\ last.op = "none"
    /\ last' = [last EXCEPT
                  !.op = "merge_twice",
                  !.result =
                      [stepwise |-> merge_profile_data(
                                        merge_profile_data(last.data.profile,
                                                           last.data.first),
                                        last.data.second),
                       combined |-> merge_profile_data(
                                        last.data.profile,
                                        merge_profile_data(last.data.first,
                                                           last.data.second))]]
    /\ UNCHANGED <<SESSIONS, now, http, threads>>

NextTwice == MergeTwice

SpecTwice == InitTwice /\ [][NextTwice]_vars

\* SpecFields: calculate_completeness and has_field called on profiles whose
\* entries are absent, truthy, falsy or of the wrong kind.
\* The mappings over a subset of keys that hold under each key one of choices[key].
MapsOver(keys, choices) ==
    UNION { { f \in [ks -> UNION { choices[k] : k \in ks }] :
                \A k \in ks : f[k] \in choices[k] } : ks \in SUBSET keys }

AddressChoices ==
    [street |-> {S("123 Main St"), S("")},
     city |-> {S("NY"), N(0)},
     country |-> {S("US")},
     state |-> {S("NY"), Null},
     zipcode |-> {N(10001), L(<<>>)}]
ContactChoices ==
    [phone |-> {S("555-0100"), B(FALSE)},
     mobile |-> {S("555-0101"), D(EmptyDict)}]
FullAddress ==
    D([street |-> S("123 Main St"), city |-> S("NY"), country |-> S("US"),
       state |-> S("NY"), zipcode |-> N(10001)])
FullContact == D([phone |-> S("555-0100"), mobile |-> S("555-0101")])
\* Profiles that vary the top-level entries and the contact mapping.
TopChoices ==
    [name |-> {S("John Doe"), S("")},
     email |-> {S("j@x.com"), Null},
     type |-> {S("individual"), B(FALSE)},
     address |-> {FullAddress, S("123 Main St")},
     contact |-> {N(5550100)} \cup
                 { D(m) : m \in MapsOver({"phone", "mobile"}, ContactChoices) }]
\* Profiles that vary the address mapping, the other entries all absent or
\* all filled.
AddressProfiles ==
    { Put(rest, "address", D(m)) :
        rest \in { EmptyDict,
                   [name |-> S("John Doe"), email |-> S("j@x.com"),
                    type |-> S("individual"), contact |-> FullContact] },
        m \in MapsOver({"street", "city", "country", "state", "zipcode"}, AddressChoices) }
FieldProfiles ==
    MapsOver({"name", "email", "type", "address", "contact"}, TopChoices)
    \cup AddressProfiles

InitFields ==
    /\ SESSIONS = [k \in {} |-> EmptyDict]
    /\ now = 0
    /\ http = NoResponse
    /\ threads = <<>>
    /\ \E profile \in FieldProfiles :
         last = [op |-> "none", session_id |-> NoId, data |-> profile, result |-> EmptyDict]

Completeness ==
    /\ last.op = "none"
    /\ last' = [last EXCEPT !.op = "calculate_completeness",
                            !.result = calculate_completeness(last.data)]
    /\ UNCHANGED <<SESSIONS, now, http, threads>>

HasField ==
    /\ last.op = "none"
    /\ \E i \in 1..Len(required_fields \o optional_fields) :
         LET field_path == (required_fields \o optional_fields)[i]
         IN last' = [last EXCEPT !.op = "has_field",
                                 !.result = [field_path |-> field_path,
                                             found |-> has_field(last.data, field_path)]]
    /\ UNCHANGED <<SESSIONS, now, http, threads>>

NextFields == Completeness \/ HasField

SpecFields == InitFields /\ [][NextFields]_vars

\* SpecPrompt: get_next_prompt called on lists of at most MaxList paths, one
\* of them ("nickname") outside the table of prompts.
ListsOver(fields) == UNION { [1..n -> fields] : n \in 0..MaxList }
PromptInputs ==
    { [missing_required |-> r, missing_optional |-> o] :
        r \in ListsOver({"name", "email", "address.street", "address.country", "nickname"}),
        o \in ListsOver({"address.state", "contact.phone"}) }

InitPrompt ==
    /\ SESSIONS = [k \in {} |-> EmptyDict]
    /\ now = 0
    /\ http = NoResponse
    /\ threads = <<>>
    /\ \E args \in PromptInputs :
         last = [op |-> "none", session_id |-> NoId, data |-> args, result |-> EmptyDict]

Prompt ==
    /\ last.op = "none"
    /\ last' = [last EXCEPT !.op = "get_next_prompt",
                            !.result = [next_prompt |->
                                get_next_prompt(last.data.missing_required,
                                                last.data.missing_optional)]]
    /\ UNCHANGED <<SESSIONS, now, http, threads>>

NextPrompt == Prompt

SpecPrompt == InitPrompt /\ [][NextPrompt]_vars

\* SpecHttp: the four endpoints of api_server.py, one conversation at a time,
\* each request served to its end before the next.
\* JSON-object bodies of POST .../start and PATCH .../update.
HttpStartBodies == StartInputs
HttpUpdateBodies == { EmptyDict, U_all, U_contact_scalar }

Response(route, session_id, data, status, body) ==
    [route |-> route, session_id |-> session_id, data |-> data, status |-> status,
     body |-> body]
\* The body of the 400 answer to a request whose body is falsy.
InvalidRequest == [error |-> "Invalid request", code |-> "INVALID_REQUEST"]
\* The body of the 500 answer of the except clause.
InternalError == [error |-> "Internal server error", code |-> "INTERNAL_ERROR"]

\* api_server.py lines 465-484
conversation_start ==
    /\ DOMAIN SESSIONS = {}
    /\ \E data \in HttpStartBodies :
         IF ~ Truthy(D(data))
         THEN /\ http' = Response("start", NoId, data, 400, InvalidRequest)
              /\ UNCHANGED <<SESSIONS, now, last>>
         ELSE /\ start_profile_session(data)
              /\ http' = Response("start", last'.session_id, data, 201, last'.result)
    /\ UNCHANGED threads

\* api_server.py lines 487-510
conversation_update ==
    /\ \E session_id \in ClientIds : \E data \in HttpUpdateBodies :
         IF ~ Truthy(D(data))
         THEN /\ http' = Response("update", session_id, data, 400, InvalidRequest)
              /\ UNCHANGED <<SESSIONS, now, last>>
         ELSE /\ TurnsLeft(session_id, DeepTurns)
              /\ update_profile_session(session_id, data)
              /\ http' = Response("update", session_id, data,
                                  IF IsError(last'.result) THEN 404 ELSE 200,
                                  last'.result)
    /\ UNCHANGED threads

\* api_server.py lines 513-528
conversation_finalize ==
    /\ \E session_id \in ClientIds :
         /\ finalize_profile_session(session_id)
         /\ http' = IF "raised" \in DOMAIN last'.result
                    THEN Response("finalize", session_id, EmptyDict, 500, InternalError)
                    ELSE Response("finalize", session_id, EmptyDict,
                                  IF IsError(last'.result)
                                  THEN IF last'.result.error = "SESSION_NOT_FOUND"
                                       THEN 404 ELSE 400
                                  ELSE 200,
                                  last'.result)
    /\ UNCHANGED threads

\* api_server.py lines 531-545
conversation_status ==
    /\ \E session_id \in ClientIds :
         /\ get_session_status(session_id)
         /\ http' = Response("status", session_id, EmptyDict,
                             IF IsError(last'.result) THEN 404 ELSE 200,
                             last'.result)
    /\ UNCHANGED threads

NextHttp ==
    conversation_start \/ conversation_update \/ conversation_finalize
    \/ conversation_status

SpecHttp == Init /\ [][NextHttp]_vars

\* SpecRace: two update requests for the same stored session, each served by
\* its own thread of the server (app.run serves every request in a new
\* thread).  A thread runs update_profile_session statement by statement and
\* the other thread may run between any two of its reads and writes of the
\* session record, which both threads reach through SESSIONS[session_id].
RaceId == "SESSION-0A1B2C3D"
RaceProfile == [name |-> S("John Doe")]
RaceUpdates == { U_contact_info, U_address }
RaceThreads == {1, 2}

\* A thread before its first statement: existing is the session["profile"] it
\* has read, turn the conversation_turn it has read, completeness the tuple it
\* has computed, result what it has returned.
Thread(updates) ==
    [pc |-> "check", updates |-> updates, existing |-> EmptyDict, turn |-> 0,
     completeness |-> calculate_completeness(EmptyDict), result |-> EmptyDict]

\* The store after start({"name": "John Doe"}) returned RaceId at clock 0.
InitRace ==
    LET session == [session_id |-> RaceId, status |-> "in_progress",
                    profile |-> InitialProfile(RaceProfile), conversation_turn |-> 1,
                    created_at |-> 0, updated_at |-> 0]
    IN /\ SESSIONS = Put([k \in {} |-> EmptyDict], RaceId, session)
       /\ now = 0
       /\ http = NoResponse
       /\ last = [op |-> "start", session_id |-> RaceId, data |-> RaceProfile,
                  result |-> StartView(session, calculate_completeness(session.profile))]
       /\ \E u1 \in RaceUpdates : \E u2 \in RaceUpdates :
            threads = <<Thread(u1), Thread(u2)>>

\* session[field] = value on the record both threads share
SetField(field, value) ==
    Put(SESSIONS, RaceId, [SESSIONS[RaceId] EXCEPT ![field] = value])

\* lines 193-199: if session_id not in SESSIONS: return ...; session = SESSIONS[session_id]
Check(i) ==
    /\ threads[i].pc = "check"
    /\ IF RaceId \notin DOMAIN SESSIONS
       THEN /\ threads' = [threads EXCEPT ![i].pc = "done", ![i].result = SessionNotFound]
            /\ last' = [op |-> "update", session_id |-> RaceId,
                        data |-> threads[i].updates, result |-> SessionNotFound]
       ELSE /\ threads' = [threads EXCEPT ![i].pc = "read_profile"]
            /\ last' = last
    /\ UNCHANGED <<SESSIONS, now, http>>

\* line 202, right-hand side: session["profile"] is read and merged
ReadProfile(i) ==
    /\ threads[i].pc = "read_profile"
    /\ threads' = [threads EXCEPT ![i].pc = "write_profile",
                                  ![i].existing = SESSIONS[RaceId].profile]
    /\ UNCHANGED <<SESSIONS, now, last, http>>

\* line 202, assignment: session["profile"] = <the merged profile>
WriteProfile(i) ==
    /\ threads[i].pc = "write_profile"
    /\ SESSIONS' = SetField("profile",
                            merge_profile_data(threads[i].existing, threads[i].updates))
    /\ threads' = [threads EXCEPT ![i].pc = "read_turn"]
    /\ UNCHANGED <<now, last, http>>

\* line 203, session["conversation_turn"] += 1: the read
ReadTurn(i) ==
    /\ threads[i].pc = "read_turn"
    /\ threads' = [threads EXCEPT ![i].pc = "write_turn",
                                  ![i].turn = SESSIONS[RaceId].conversation_turn]
    /\ UNCHANGED <<SESSIONS, now, last, http>>

\* line 203, session["conversation_turn"] += 1: the write
WriteTurn(i) ==
    /\ threads[i].pc = "write_turn"
    /\ SESSIONS' = SetField("conversation_turn", NextTurn(threads[i].turn))
    /\ threads' = [threads EXCEPT ![i].pc = "stamp"]
    /\ UNCHANGED <<now, last, http>>

\* line 204: session["updated_at"] = datetime.utcnow()...
Stamp(i) ==
    /\ threads[i].pc = "stamp"
    /\ \E t \in now..MaxClock :
         /\ SESSIONS' = SetField("updated_at", t)
         /\ now' = t
    /\ threads' = [threads EXCEPT ![i].pc = "compute"]
    /\ UNCHANGED <<last, http>>

\* lines 206-209: calculate_completeness(session["profile"])
Compute(i) ==
    /\ threads[i].pc = "compute"
    /\ threads' = [threads EXCEPT ![i].pc = "set_status",
                                  ![i].completeness =
                                      calculate_completeness(SESSIONS[RaceId].profile)]
    /\ UNCHANGED <<SESSIONS, now, last, http>>

\* lines 211-213: if not missing_required: session["status"] = "complete"
SetStatus(i) ==
    /\ threads[i].pc = "set_status"
    /\ SESSIONS' = SetField("status",
                            NewStatus(SESSIONS[RaceId].status,
                                      threads[i].completeness.missing_required))
    /\ threads' = [threads EXCEPT ![i].pc = "return"]
    /\ UNCHANGED <<now, last, http>>

\* lines 215-225: the view is built from the session record as it is now
Return(i) ==
    /\ threads[i].pc = "return"
    /\ LET result == UpdateView(SESSIONS[RaceId], threads[i].completeness)
       IN /\ threads' = [threads EXCEPT ![i].pc = "done", ![i].result = result]
          /\ last' = [op |-> "update", session_id |-> RaceId,
                      data |-> threads[i].updates, result |-> result]
    /\ UNCHANGED <<SESSIONS, now, http>>

NextRace ==
    \E i \in RaceThreads :
        \/ Check(i) \/ ReadProfile(i) \/ WriteProfile(i) \/ ReadTurn(i) \/ WriteTurn(i)
        \/ Stamp(i) \/ Compute(i) \/ SetStatus(i) \/ Return(i)

SpecRace == InitRace /\ [][NextRace]_vars

\* SpecRaceEnd: a finalize request that runs in one thread while a second
\* finalize or an update of the same session runs in another.  The session
\* is complete: it was started for John Doe and updated once with U_all.
\* threads.calls are the two calls; threads.session is the dict object both
\* reach by session = SESSIONS[session_id]: while the store holds the id,
\* SESSIONS[RaceId] is that object.
EndUpdates == { U_optional, U_street_empty }
EndSession ==
    [session_id |-> RaceId, status |-> "complete",
     profile |-> merge_profile_data(InitialProfile(RaceProfile), U_all),
     conversation_turn |-> 2, created_at |-> 0, updated_at |-> 0]

\* A call before its first statement.  profile is the local variable profile
\* of finalize, completeness the tuple the call has computed, times the two
\* stamps finalize has read, result what the call has returned or raised.
Call(kind, updates) ==
    [kind |-> kind, pc |-> "check", updates |-> updates, profile |-> EmptyDict,
     completeness |-> calculate_completeness(EmptyDict),
     times |-> [created_at |-> 0, updated_at |-> 0], result |-> EmptyDict]

InitRaceEnd ==
    /\ SESSIONS = Put([k \in {} |-> EmptyDict], RaceId, EndSession)
    /\ now = 0
    /\ http = NoResponse
    /\ last = [op |-> "update", session_id |-> RaceId, data |-> U_all,
               result |-> UpdateView(EndSession, calculate_completeness(EndSession.profile))]
    /\ \E first \in { Call("finalize", EmptyDict) }
                      \cup { Call("update", u) : u \in EndUpdates } :
         threads = [calls |-> <<first, Call("finalize", EmptyDict)>>,
                    session |-> EndSession]

\* The call is of this kind and at this statement.
At(i, kind, pc) == threads.calls[i].kind = kind /\ threads.calls[i].pc = pc

\* The call moves on to the statement pc.
Goto(i, pc) == [threads EXCEPT !.calls[i].pc = pc]

\* The call ends with this result, returned or raised.
Ends(i, result) ==
    /\ threads' = [threads EXCEPT !.calls[i].pc = "done", !.calls[i].result = result]
    /\ last' = [op |-> threads.calls[i].kind, session_id |-> RaceId,
                data |-> threads.calls[i].updates, result |-> result]

\* session[field] = value: the object changes, and with it the entry of the
\* store while the store holds the object.
Assign(i, pc, field, value) ==
    LET session == [threads.session EXCEPT ![field] = value]
    IN /\ threads' = [threads EXCEPT !.calls[i].pc = pc, !.session = session]
       /\ SESSIONS' = IF RaceId \in DOMAIN SESSIONS
                      THEN Put(SESSIONS, RaceId, session)
                      ELSE SESSIONS

\* A variant of del that passes over a key the store does not hold.
DelIgnoresMissing(store, session_id) == FALSE

\* SESSIONS[session_id] and del SESSIONS[session_id] raise KeyError for a key
\* the store does not hold.
KeyErrorRaised(store, session_id) == session_id \notin DOMAIN store

\* lines 237-241: if session_id not in SESSIONS: return SESSION_NOT_FOUND
FinalizeCheck(i) ==
    /\ At(i, "finalize", "check")
    /\ IF RaceId \notin DOMAIN SESSIONS
       THEN Ends(i, SessionNotFound)
       ELSE threads' = Goto(i, "lookup") /\ last' = last
    /\ UNCHANGED <<SESSIONS, now, http>>

\* line 243: session = SESSIONS[session_id]
FinalizeLookup(i) ==
    /\ At(i, "finalize", "lookup")
    /\ IF KeyErrorRaised(SESSIONS, RaceId)
       THEN Ends(i, [raised |-> "KeyError"])
       ELSE threads' = Goto(i, "profile") /\ last' = last
    /\ UNCHANGED <<SESSIONS, now, http>>

\* line 244: profile = session["profile"]
FinalizeProfile(i) ==
    /\ At(i, "finalize", "profile")
    /\ threads' = [threads EXCEPT !.calls[i].pc = "validate",
                                  !.calls[i].profile = threads.session.profile]
    /\ UNCHANGED <<SESSIONS, now, last, http>>

\* lines 247-256: calculate_completeness(profile); if missing_required: return ...
FinalizeValidate(i) ==
    /\ At(i, "finalize", "validate")
    /\ LET c == calculate_completeness(threads.calls[i].profile)
       IN IF c.missing_required # <<>>
          THEN Ends(i, [error |-> "VALIDATION_ERROR",
                        missing_fields |-> c.missing_required,
                        session_id |-> RaceId])
          ELSE threads' = Goto(i, "time") /\ last' = last
    /\ UNCHANGED <<SESSIONS, now, http>>

\* lines 273-278: session["created_at"] and session["updated_at"] are read
FinalizeTime(i) ==
    /\ At(i, "finalize", "time")
    /\ threads' = [threads EXCEPT
                     !.calls[i].pc = "result",
                     !.calls[i].times = [created_at |-> threads.session.created_at,
                                         updated_at |-> threads.session.updated_at]]
    /\ UNCHANGED <<SESSIONS, now, last, http>>

\* lines 280-306: the result is built from profile, the stamps read before,
\* session["conversation_turn"] as it is now and the clock
FinalizeBuild(i) ==
    /\ At(i, "finalize", "result")
    /\ \E t \in now..MaxClock :
         LET read == [profile |-> threads.calls[i].profile,
                      conversation_turn |-> threads.session.conversation_turn,
                      created_at |-> threads.calls[i].times.created_at,
                      updated_at |-> threads.calls[i].times.updated_at]
             result == FinalizeResult(read, t)
         IN /\ now' = t
            /\ IF IsSuccess(result)
               THEN /\ threads' = [threads EXCEPT !.calls[i].pc = "del",
                                                  !.calls[i].result = result]
                    /\ last' = last
               ELSE Ends(i, result)
    /\ UNCHANGED <<SESSIONS, http>>

\* line 309: del SESSIONS[session_id]
FinalizeDel(i) ==
    /\ At(i, "finalize", "del")
    /\ IF KeyErrorRaised(SESSIONS, RaceId)
       THEN Ends(i, [raised |-> "KeyError"]) /\ SESSIONS' = SESSIONS
       ELSE /\ threads' = Goto(i, "return")
            /\ last' = last
            /\ SESSIONS' = CleanUp(SESSIONS, RaceId)
    /\ UNCHANGED <<now, http>>

\* line 311: return result
FinalizeReturn(i) ==
    /\ At(i, "finalize", "return")
    /\ Ends(i, threads.calls[i].result)
    /\ UNCHANGED <<SESSIONS, now, http>>

\* lines 193-197: if session_id not in SESSIONS: return SESSION_NOT_FOUND
UpdateCheck(i) ==
    /\ At(i, "update", "check")
    /\ IF RaceId \notin DOMAIN SESSIONS
       THEN Ends(i, SessionNotFound)
       ELSE threads' = Goto(i, "lookup") /\ last' = last
    /\ UNCHANGED <<SESSIONS, now, http>>

\* line 199: session = SESSIONS[session_id]
UpdateLookup(i) ==
    /\ At(i, "update", "lookup")
    /\ IF KeyErrorRaised(SESSIONS, RaceId)
       THEN Ends(i, [raised |-> "KeyError"])
       ELSE threads' = Goto(i, "merge") /\ last' = last
    /\ UNCHANGED <<SESSIONS, now, http>>

\* line 202: session["profile"] = merge_profile_data(session["profile"], updates)
\* (no other call of SpecRaceEnd writes the profile between the read and the
\* assignment)
UpdateMerge(i) ==
    /\ At(i, "update", "merge")
    /\ Assign(i, "turn", "profile",
              merge_profile_data(threads.session.profile, threads.calls[i].updates))
    /\ UNCHANGED <<now, last, http>>

\* line 203: session["conversation_turn"] += 1
UpdateTurn(i) ==
    /\ At(i, "update", "turn")
    /\ Assign(i, "stamp", "conversation_turn", NextTurn(threads.session.conversation_turn))
    /\ UNCHANGED <<now, last, http>>

\* line 204: session["updated_at"] = datetime.utcnow()...
UpdateStamp(i) ==
    /\ At(i, "update", "stamp")
    /\ \E t \in now..MaxClock :
         /\ Assign(i, "compute", "updated_at", t)
         /\ now' = t
    /\ UNCHANGED <<last, http>>

\* lines 206-209: calculate_completeness(session["profile"])
UpdateCompute(i) ==
    /\ At(i, "update", "compute")
    /\ threads' = [threads EXCEPT
                     !.calls[i].pc = "status",
                     !.calls[i].completeness =
                         calculate_completeness(threads.session.profile)]
    /\ UNCHANGED <<SESSIONS, now, last, http>>

\* lines 211-213: if not missing_required: session["status"] = "complete"
UpdateStatus(i) ==
    /\ At(i, "update", "status")
    /\ Assign(i, "return", "status",
              NewStatus(threads.session.status,
                        threads.calls[i].completeness.missing_required))
    /\ UNCHANGED <<now, last, http>>

\* lines 215-225: the view is built from the object
UpdateReturn(i) ==
    /\ At(i, "update", "return")
    /\ Ends(i, UpdateView(threads.session, threads.calls[i].completeness))
    /\ UNCHANGED <<SESSIONS, now, http>>

NextRaceEnd ==
    \E i \in RaceThreads :
        \/ FinalizeCheck(i) \/ FinalizeLookup(i) \/ FinalizeProfile(i)
        \/ FinalizeValidate(i) \/ FinalizeTime(i) \/ FinalizeBuild(i)
        \/ FinalizeDel(i) \/ FinalizeReturn(i)
        \/ UpdateCheck(i) \/ UpdateLookup(i) \/ UpdateMerge(i) \/ UpdateTurn(i)
        \/ UpdateStamp(i) \/ UpdateCompute(i) \/ UpdateStatus(i) \/ UpdateReturn(i)

SpecRaceEnd == InitRaceEnd /\ [][NextRaceEnd]_vars

\* SpecChain: register_employee of tc_p0_py_003/register_employee.py, the
\* while loop one iteration at a time.  The input is a chain of persons 1..n,
\* person 1 the employee and person k + 1 the manager of person k.
\* ids[k] stands for the employee_id of person k: 0 for a person without one,
\* and by default k; at most one manager has the id of a person below or
\* none.  tail says what the last person holds as manager: nothing, a string,
\* or (in an object built in Python, not parsed from JSON) the person `back`
\* of the chain again.  valid is false for a request that lines 54-76 reject.
ChainIds(n) ==
    { [k \in 1..n |-> k] }
    \cup { [k \in 1..n |-> IF k = j THEN v ELSE k] : j \in 2..n, v \in 0..(n - 1) }
ChainInputs ==
    { [valid |-> FALSE, ids |-> <<1>>, tail |-> "none", back |-> 1] }
    \cup UNION { { [valid |-> TRUE, ids |-> ids, tail |-> tail, back |-> 1] :
                    ids \in ChainIds(n), tail \in {"none", "string"} }
                 \cup { [valid |-> TRUE, ids |-> ids, tail |-> "person", back |-> b] :
                         ids \in ChainIds(n), b \in {1, n} }
                 : n \in 1..MaxChain }

\* The locals of the call before its first statement.
ChainCall ==
    [pc |-> "validate", current |-> 1, reporting_chain |-> <<>>,
     visited_ids |-> {}, hierarchy_levels |-> 0, warning |-> "",
     result |-> EmptyDict]

InitChain ==
    /\ SESSIONS = [k \in {} |-> EmptyDict]
    /\ now = 0
    /\ http = NoResponse
    /\ threads = ChainCall
    /\ \E registration_data \in ChainInputs :
         last = [op |-> "none", session_id |-> NoId, data |-> registration_data,
                 result |-> EmptyDict]

\* f"{current.get('name')} ({current.get('employee_id')})" of person k: the
\* name (the person's place in the chain stands for it) and the id
ChainEntry(k) == [name |-> k, employee_id |-> last.data.ids[k]]

\* current.get("manager") of person k: 0 for none or a falsy one, -1 for a
\* string, else the person
ManagerOf(k) ==
    IF k < Len(last.data.ids) THEN k + 1
    ELSE CASE last.data.tail = "none" -> 0
           [] last.data.tail = "string" -> -1
           [] last.data.tail = "person" -> last.data.back

\* The call returns or raises.
ChainEnds(result) ==
    /\ threads' = [threads EXCEPT !.pc = "done", !.result = result]
    /\ last' = [last EXCEPT !.op = "register_employee", !.result = result]

\* A variant without the limit on the depth.
DepthUnlimited(hierarchy_levels) == FALSE

\* line 118: if hierarchy_levels > 10
DepthExceeded(hierarchy_levels) == hierarchy_levels > MaxDepth

\* lines 51-100: the request is rejected, or the chain starts with the employee
RegisterValidate ==
    /\ threads.pc = "validate"
    /\ IF ~ last.data.valid
       THEN ChainEnds([status |-> "error", code |-> "INVALID_REQUEST"])
       ELSE /\ threads' = [threads EXCEPT !.pc = "while",
                                          !.current = 1,
                                          !.reporting_chain = <<ChainEntry(1)>>,
                                          !.visited_ids = {last.data.ids[1]},
                                          !.hierarchy_levels = 1]
            /\ last' = last
    /\ UNCHANGED <<SESSIONS, now, http>>

\* lines 103-120: the test of the while loop and one pass through its body
RegisterTraverse ==
    /\ threads.pc = "while"
    /\ LET manager == ManagerOf(threads.current)
       IN IF manager = 0
          THEN threads' = [threads EXCEPT !.pc = "finish"] /\ last' = last
          ELSE IF manager = -1
          THEN ChainEnds([raised |-> "AttributeError"])
          ELSE LET manager_id == last.data.ids[manager]
                   hierarchy_levels == threads.hierarchy_levels + 1
               IN /\ last' = last
                  /\ IF manager_id \in threads.visited_ids
                     THEN threads' =
                            [threads EXCEPT
                               !.pc = "finish", !.current = manager,
                               !.warning = "Circular reference detected in management chain"]
                     ELSE threads' =
                            [threads EXCEPT
                               !.current = manager,
                               !.reporting_chain = Append(@, ChainEntry(manager)),
                               !.visited_ids = @ \cup {manager_id},
                               !.hierarchy_levels = hierarchy_levels,
                               !.pc = IF DepthExceeded(hierarchy_levels)
                                      THEN "finish" ELSE "while",
                               !.warning =
                                  IF DepthExceeded(hierarchy_levels)
                                  THEN "Management hierarchy exceeds maximum depth of 10 levels"
                                  ELSE @]
    /\ UNCHANGED <<SESSIONS, now, http>>

\* lines 122-143: the result (the summaries of the employee and of the direct
\* manager and the registration date are left out)
RegisterFinish ==
    /\ threads.pc = "finish"
    /\ LET base == [status |-> "success", reporting_chain |-> threads.reporting_chain]
           warned == IF threads.warning # ""
                     THEN [status |-> base.status, reporting_chain |-> base.reporting_chain,
                           warning |-> threads.warning]
                     ELSE base
           result == IF threads.hierarchy_levels > 1
                     THEN [k \in DOMAIN warned \cup {"hierarchy_levels"} |->
                             IF k = "hierarchy_levels" THEN threads.hierarchy_levels
                             ELSE warned[k]]
                     ELSE warned
       IN ChainEnds(result)
    /\ UNCHANGED <<SESSIONS, now, http>>

NextChain == RegisterValidate \/ RegisterTraverse \/ RegisterFinish

SpecChain == InitChain /\ [][NextChain]_vars /\ WF_vars(NextChain)

\* ================================================================ SpecEnum
\* SpecEnum: the multi-level enum profile (process_enum_validation.py) behind
\* POST /api/v1/customer/multi-level-enum.  Every request is independent: the
\* function keeps no state, so each step serves one body drawn from EnumBodies.
STATUS_VALUES == <<"active", "inactive">>
TYPE_VALUES == <<"individual", "corporate">>
COUNTRY_VALUES == <<"US", "CA", "UK">>
PREFERENCE_VALUES == <<"email", "phone", "sms">>

\* The bodies of the requests: status, customer.type, customer.address.country
\* and customer.contact.preference each absent, allowed or not allowed (the
\* preference also empty), a street that is a string or a number, and customer,
\* address and contact each absent, a mapping, or a value that is no mapping.
EnumAddresses ==
    { D(m) : m \in MapsOver({"country", "street"},
                            [country |-> {S("US"), S("FR")},
                             street |-> {S("1 Main St"), N(5)}]) }
    \cup { S("1 Main St, US") }
EnumContacts ==
    { D(m) : m \in MapsOver({"preference"},
                            [preference |-> {S(""), S("sms"), S("fax")}]) }
    \cup { Null }
EnumCustomers ==
    { D(m) : m \in MapsOver({"type", "address", "contact"},
                            [type |-> {S("individual"), S("vip")},
                             address |-> EnumAddresses,
                             contact |-> EnumContacts]) }
    \cup { S("John Doe"), Null }
EnumBodies ==
    MapsOver({"status", "customer"},
             [status |-> {S("active"), S("archived")},
              customer |-> EnumCustomers])

\* validate_enum (lines 27-41): value in allowed_values, with the message that
\* names the field.  No string of the list equals a value that is not a string.
validate_enum(value, allowed_values, field_name) ==
    IF IsStr(value) /\ \E i \in 1..Len(allowed_values) : allowed_values[i] = value.v
    THEN [valid |-> TRUE, message |-> <<field_name, "valid">>]
    ELSE [valid |-> FALSE, message |-> <<field_name, "invalid">>]

\* One entry of the validations list (lines 204-210, 215-221, 226-232, 238-244).
Validation(level, checked, nesting_level, field_path, provided_value, allowed_values) ==
    [level |-> level, message |-> checked.message, valid |-> checked.valid,
     nesting_level |-> nesting_level, field_path |-> field_path,
     provided_value |-> provided_value, allowed_values |-> allowed_values]

\* lines 247-260: the answer when some validation failed, the result of lines
\* 187-195 with success and error set; validation_failures keeps the failed
\* entries of validations in their order.
EnumFailure(data, customer, validations) ==
    LET failed == SelectSeq(validations, LAMBDA v : ~ v.valid)
    IN [success |-> FALSE,
        profile_status |-> Get(data, "status", S("active")),
        customer_type |-> Get(customer, "type", S("individual")),
        error |-> "ENUM_VALIDATION_ERROR",
        validation_failures |->
            [i \in 1..Len(failed) |->
                [field_path |-> failed[i].field_path,
                 provided_value |-> failed[i].provided_value,
                 allowed_values |-> failed[i].allowed_values,
                 nesting_level |-> failed[i].nesting_level]]]

\* lines 263-271: the parts of the address that are truthy, in the order
\* street, city, state, zipcode, country.
AddressParts(address) ==
    SelectSeq([i \in 1..5 |->
                  Get(address, <<"street", "city", "state", "zipcode", "country">>[i], Null)],
              Truthy)

\* lines 262-286: the answer when every validation passed.  ", ".join raises
\* TypeError for a part that is not a string.
EnumSuccess(data, customer, address, contact, validations) ==
    LET address_parts == AddressParts(address)
    IN IF \E i \in 1..Len(address_parts) : ~ IsStr(address_parts[i])
       THEN [raised |-> "TypeError"]
       ELSE [success |-> TRUE,
             profile_status |-> Get(data, "status", S("active")),
             customer_type |-> Get(customer, "type", S("individual")),
             address_formatted |-> [i \in 1..Len(address_parts) |-> address_parts[i].v],
             country |-> Get(address, "country", S("")),
             contact_preference |-> Get(contact, "preference", S("email")),
             enum_validation_report |->
                 [total_enum_fields |-> Len(validations),
                  all_valid |-> TRUE,
                  validations |-> [i \in 1..Len(validations) |-> validations[i].message]]]

\* create_multi_level_enum_profile (lines 168-288).  customer.get, address.get
\* and contact.get raise AttributeError on a value that is no mapping (a key
\* that is present with null gives None, not the default {}).  The generated
\* profile_id and created_at are left out: no claim reads them.
create_multi_level_enum_profile(data) ==
    LET customer == Get(data, "customer", D(EmptyDict))
    IN IF ~ IsDict(customer) THEN [raised |-> "AttributeError"] ELSE
       LET address == Get(customer.m, "address", D(EmptyDict))
           contact == Get(customer.m, "contact", D(EmptyDict))
       IN IF ~ IsDict(address) \/ ~ IsDict(contact)
          THEN [raised |-> "AttributeError"]
          ELSE
          LET preference == Get(contact.m, "preference", Null)
              level_0 == Validation("level_0_status",
                             validate_enum(Get(data, "status", S("")), STATUS_VALUES, "status"),
                             0, "status", Get(data, "status", Null), STATUS_VALUES)
              level_1 == Validation("level_1_customer_type",
                             validate_enum(Get(customer.m, "type", S("")), TYPE_VALUES,
                                           "customer_type"),
                             1, "customer.type", Get(customer.m, "type", Null), TYPE_VALUES)
              level_2 == Validation("level_2_address_country",
                             validate_enum(Get(address.m, "country", S("")), COUNTRY_VALUES,
                                           "address_country"),
                             2, "customer.address.country",
                             Get(address.m, "country", Null), COUNTRY_VALUES)
              level_3 == Validation("level_3_contact_preference",
                             validate_enum(preference, PREFERENCE_VALUES,
                                           "contact_preference"),
                             3, "customer.contact.preference", preference,
                             PREFERENCE_VALUES)
              validations == IF Truthy(preference)
                             THEN <<level_0, level_1, level_2, level_3>>
                             ELSE <<level_0, level_1, level_2>>
              all_valid == \A i \in 1..Len(validations) : validations[i].valid
          IN IF ~ all_valid
             THEN EnumFailure(data, customer.m, validations)
             ELSE EnumSuccess(data, customer.m, address.m, contact.m, validations)

\* multi_level_enum (api_server.py lines 440-461): 400 for a falsy body, 201 or
\* 400 by result.get('success'), 500 when the function raises.
multi_level_enum ==
    /\ \E data \in EnumBodies :
         IF ~ Truthy(D(data))
         THEN /\ http' = Response("multi-level-enum", NoId, data, 400, InvalidRequest)
              /\ UNCHANGED last
         ELSE LET result == create_multi_level_enum_profile(data)
              IN /\ last' = [op |-> "create_multi_level_enum_profile",
                             session_id |-> NoId, data |-> data, result |-> result]
                 /\ http' = IF "raised" \in DOMAIN result
                            THEN Response("multi-level-enum", NoId, data, 500, InternalError)
                            ELSE Response("multi-level-enum", NoId, data,
                                          IF result.success THEN 201 ELSE 400, result)
    /\ UNCHANGED <<SESSIONS, now, threads>>

NextEnum == multi_level_enum

SpecEnum == Init /\ [][NextEnum]_vars

\* ================================================================ properties
\* The missing required fields of a profile.
Missing(profile) == calculate_completeness(profile).missing_required
SeqSet(seq) == { seq[i] : i \in 1..Len(seq) }
\* The result is the error object with this code.
IsErrorCode(result, code) == IsError(result) /\ result.error = code
\* The step is a call of op on session_id.
Called(op, session_id) == last'.op = op /\ last'.session_id = session_id

RECURSIVE Paths(_)
\* The key paths of a mapping: every key, and under a key that holds a
\* mapping the paths of that mapping.
Paths(m) ==
    UNION { {<<k>>} \cup (IF IsDict(m[k]) THEN { <<k>> \o q : q \in Paths(m[k].m) } ELSE {})
            : k \in DOMAIN m }

RECURSIVE ValueAt(_, _)
\* The value a key path of m leads to.
ValueAt(m, path) ==
    IF Len(path) = 1 THEN m[path[1]] ELSE ValueAt(m[path[1]].m, Tail(path))

\* C1: for a session id that is not in the store, update, finalize and status
\* each return the SESSION_NOT_FOUND error and leave the whole store unchanged.
C1_UnknownIdLeavesStore ==
    [][ (last'.op \in {"update", "finalize", "status"}
         /\ last'.session_id \notin DOMAIN SESSIONS)
        => (IsErrorCode(last'.result, "SESSION_NOT_FOUND") /\ SESSIONS' = SESSIONS) ]_vars

\* An update of an id the store does not hold was answered, the store holding
\* another session.
C1_Witness ==
    /\ last.op = "update"
    /\ last.session_id \notin DOMAIN SESSIONS
    /\ IsErrorCode(last.result, "SESSION_NOT_FOUND")
    /\ DOMAIN SESSIONS # {}

\* C2: a finalize of a stored session with a missing required field returns
\* VALIDATION_ERROR listing exactly the missing required fields and leaves the
\* store as it was (same record: profile, status, turn, timestamps); a status
\* call that follows it returns the session with that profile.
C2_FailedFinalizeKeepsSession ==
    [][ /\ \A id \in DOMAIN SESSIONS :
             (Called("finalize", id) /\ Missing(SESSIONS[id].profile) # <<>>)
             => /\ IsErrorCode(last'.result, "VALIDATION_ERROR")
                /\ last'.result.missing_fields = Missing(SESSIONS[id].profile)
                /\ SESSIONS' = SESSIONS
        /\ (/\ last.op = "finalize"
            /\ IsErrorCode(last.result, "VALIDATION_ERROR")
            /\ Called("status", last.session_id))
           => /\ ~IsError(last'.result)
              /\ last'.result.profile = SESSIONS[last.session_id].profile
              /\ last'.result.conversation_turn = SESSIONS[last.session_id].conversation_turn
      ]_vars

\* A finalize was rejected on a session that had been updated, and the session
\* is in the store.
C2_Witness ==
    /\ last.op = "finalize"
    /\ IsErrorCode(last.result, "VALIDATION_ERROR")
    /\ last.session_id \in DOMAIN SESSIONS
    /\ SESSIONS[last.session_id].conversation_turn >= 2
    /\ last.result.missing_fields = Missing(SESSIONS[last.session_id].profile)

\* C3: when finalize returns the success result for session id s, s is not in
\* the store afterwards, and a status, update or finalize call on s that
\* follows returns SESSION_NOT_FOUND; an id enters the store only by a start
\* that returns it, so s stays out until a start is handed s again.
C3_FinalizedSessionGone ==
    [][ /\ (last'.op = "finalize" /\ IsSuccess(last'.result))
           => last'.session_id \notin DOMAIN SESSIONS'
        /\ \A id \in DOMAIN SESSIONS' \ DOMAIN SESSIONS : Called("start", id)
        /\ (/\ last.op = "finalize"
            /\ IsSuccess(last.result)
            /\ last'.op \in {"status", "update", "finalize"}
            /\ last'.session_id = last.session_id)
           => IsErrorCode(last'.result, "SESSION_NOT_FOUND")
      ]_vars

\* A finalize succeeded and its session is gone while another one is stored.
C3_Witness ==
    /\ last.op = "finalize"
    /\ IsSuccess(last.result)
    /\ last.session_id \notin DOMAIN SESSIONS
    /\ DOMAIN SESSIONS # {}

\* C4: every start stores its record under an id that is not in the store, so
\* a start never overwrites or replaces an existing session record.
C4_StartNeverOverwrites ==
    [][ last'.op = "start" => last'.session_id \notin DOMAIN SESSIONS ]_vars

\* C5: a session leaves the store only by a successful finalize of its id: if
\* a stored id is no longer stored after a step, or its record was replaced by
\* that of a newly started session, the step is that finalize.
C5_RemovedOnlyByFinalize ==
    [][ \A id \in DOMAIN SESSIONS :
          (id \notin DOMAIN SESSIONS' \/ Called("start", id))
          => (Called("finalize", id) /\ IsSuccess(last'.result)) ]_vars

\* C6: an update sets the status to complete exactly when the merged profile
\* has no missing required field and otherwise leaves it unchanged, so a
\* complete session stays complete after every update, also one that makes a
\* required field missing again; the view then reports status complete with a
\* non-empty missing_required_fields.
C6_StatusSticky ==
    [][ \A id \in DOMAIN SESSIONS :
          /\ Called("update", id)
             => /\ SESSIONS'[id].status =
                      (IF Missing(SESSIONS'[id].profile) = <<>>
                       THEN "complete" ELSE SESSIONS[id].status)
                /\ last'.result.status = SESSIONS'[id].status
                /\ last'.result.missing_required_fields = Missing(SESSIONS'[id].profile)
          /\ (SESSIONS[id].status = "complete" /\ id \in DOMAIN SESSIONS'
              /\ ~Called("start", id))
             => SESSIONS'[id].status = "complete"
      ]_vars

\* An update returned a view with status complete and a missing required field.
C6_Witness ==
    /\ last.op = "update"
    /\ ~IsError(last.result)
    /\ last.result.status = "complete"
    /\ last.result.missing_required_fields # <<>>
    /\ SESSIONS[last.session_id].status = "complete"

\* C7: a start stores its session with turn 1; a successful update of a session
\* raises its turn by exactly 1; every other step (status, an update of an
\* unknown id, a finalize that leaves the session, any call on another
\* session) leaves the turn of a stored session unchanged.
C7_TurnCounts ==
    [][ \A id \in DOMAIN SESSIONS' :
          IF Called("start", id)
          THEN SESSIONS'[id].conversation_turn = 1
          ELSE /\ id \in DOMAIN SESSIONS
               /\ SESSIONS'[id].conversation_turn =
                    SESSIONS[id].conversation_turn
                    + (IF Called("update", id) /\ ~IsError(last'.result) THEN 1 ELSE 0)
      ]_vars

\* An update was applied to one session, now at turn 2, while another session
\* is still at turn 1.
C7_Witness ==
    /\ last.op = "update"
    /\ ~IsError(last.result)
    /\ last.result.conversation_turn = 2
    /\ SESSIONS[last.session_id].conversation_turn = 2
    /\ \E other \in DOMAIN SESSIONS \ {last.session_id} :
         SESSIONS[other].conversation_turn = 1

Overridden(updates, path) ==
    \E n \in 1..(Len(path) - 1) :
       LET prefix == SubSeq(path, 1, n)
       IN prefix \in Paths(updates) /\ ~IsDict(ValueAt(updates, prefix))

RECURSIVE NonEmpty(_)
\* A value that is non-empty, with non-empty values throughout.
NonEmpty(value) ==
    /\ Truthy(value)
    /\ IsDict(value) => \A k \in DOMAIN value.m : NonEmpty(value.m[k])

RECURSIVE AddOnly(_, _)
\* The update only adds fields to the profile: each of its keys is new and
\* holds a non-empty value, or holds a mapping that only adds fields to the
\* mapping the profile holds there.
AddOnly(profile, updates) ==
    \A k \in DOMAIN updates :
       IF k \in DOMAIN profile
       THEN /\ IsDict(profile[k])
            /\ IsDict(updates[k])
            /\ AddOnly(profile[k].m, updates[k].m)
       ELSE NonEmpty(updates[k])

\* C9: an update that only adds fields adds no element to the missing required
\* fields of the session and does not lower its completeness percentage.
C9_AddOnlyMonotone ==
    [][ \A id \in DOMAIN SESSIONS :
          (Called("update", id) /\ AddOnly(SESSIONS[id].profile, last'.data))
          => /\ SeqSet(Missing(SESSIONS'[id].profile))
                  \subseteq SeqSet(Missing(SESSIONS[id].profile))
             /\ calculate_completeness(SESSIONS'[id].profile).percentage
                  >= calculate_completeness(SESSIONS[id].profile).percentage ]_vars

\* The state was added to the address of a session completed by one update:
\* both updates only added fields.
C9_Witness ==
    /\ last.op = "update"
    /\ ~IsError(last.result)
    /\ last.data = U_state
    /\ last.result.conversation_turn = 3
    /\ last.result.missing_required_fields = <<>>
    /\ last.result.completeness_percentage = 70

RECURSIVE DeepMerge(_, _)
\* The merge rule: the keys of both; a key of existing alone keeps its value, a
\* key holding a mapping on both sides holds the merge of the two, any other
\* key of updates holds the value of updates.
DeepMerge(existing, updates) ==
    [k \in DOMAIN existing \cup DOMAIN updates |->
        IF k \notin DOMAIN updates THEN existing[k]
        ELSE IF k \in DOMAIN existing /\ IsDict(existing[k]) /\ IsDict(updates[k])
             THEN D(DeepMerge(existing[k].m, updates[k].m))
             ELSE updates[k]]

\* C10: merge_profile_data(existing, updates) is the mapping of the merge rule
\* at every depth, and merging {address: {city}} into {address: {street}}
\* retains both street and city.
C10_MergeRule ==
    last.op = "merge"
    => /\ DOMAIN last.result = DOMAIN last.data.existing \cup DOMAIN last.data.updates
       /\ last.result = DeepMerge(last.data.existing, last.data.updates)
       /\ (/\ last.data.existing = [address |-> D([street |-> S("Main St")])]
           /\ last.data.updates = [address |-> D([city |-> S("NY")])])
          => last.result = [address |-> D([street |-> S("Main St"), city |-> S("NY")])]

\* {address: {city: NY}} was merged into {address: {street: Main St}}.
C10_Witness ==
    /\ last.op = "merge"
    /\ last.data.existing = [address |-> D([street |-> S("Main St")])]
    /\ last.data.updates = [address |-> D([city |-> S("NY")])]
    /\ last.result = [address |-> D([street |-> S("Main St"), city |-> S("NY")])]

\* The result is a session view.
IsView(result) == "profile" \in DOMAIN result

\* C11: start always succeeds, update and status on a stored id always return
\* a session view, and finalize on a stored session with no missing required
\* field always returns the success result and deletes the session.
C11_OnlyTwoErrors ==
    [][ /\ last'.op = "start" => IsView(last'.result)
        /\ \A id \in DOMAIN SESSIONS :
             /\ (Called("update", id) \/ Called("status", id)) => IsView(last'.result)
             /\ (Called("finalize", id) /\ Missing(SESSIONS[id].profile) = <<>>)
                => (IsSuccess(last'.result) /\ id \notin DOMAIN SESSIONS')
      ]_vars

\* C12: start stores, under the id it returns, a session with status
\* in_progress, turn 1 and a profile holding only the key name (the name of
\* the body, or "Unknown"), and returns that profile; a status call on the id
\* that follows returns the same profile, turn 1 and, the name being
\* non-empty, 10 percent.
C12_StartStoresNameOnly ==
    [][ /\ \A id \in IdPool :
             Called("start", id)
             => LET name == IF "name" \in DOMAIN last'.data
                            THEN last'.data["name"] ELSE S("Unknown")
                IN /\ id \in DOMAIN SESSIONS'
                   /\ SESSIONS'[id].status = "in_progress"
                   /\ SESSIONS'[id].conversation_turn = 1
                   /\ SESSIONS'[id].profile = [name |-> name]
                   /\ IsView(last'.result)
                   /\ last'.result.session_id = id
                   /\ last'.result.profile = [name |-> name]
                   /\ last'.result.conversation_turn = 1
        /\ (last.op = "start" /\ Called("status", last.session_id))
           => /\ IsView(last'.result)
              /\ last'.result.profile = last.result.profile
              /\ last'.result.conversation_turn = 1
              /\ Truthy(last.result.profile["name"])
                 => last'.result.completeness_percentage = 10
      ]_vars

\* A start whose body held a name and an email stored and returned a profile
\* with the name alone, 10 percent complete.
C12_Witness ==
    /\ last.op = "start"
    /\ "email" \in DOMAIN last.data
    /\ IsView(last.result)
    /\ last.result.profile = [name |-> S("John Doe")]
    /\ SESSIONS[last.session_id].profile = [name |-> S("John Doe")]
    /\ last.result.completeness_percentage = 10

\* C13: a status call leaves the store and the clock as they were, its view
\* shows the stored record, and a second status call on the same id right
\* after it returns the identical view.
C13_StatusReadsOnly ==
    [][ /\ last'.op = "status" => (SESSIONS' = SESSIONS /\ now' = now)
        /\ \A id \in DOMAIN SESSIONS :
             Called("status", id)
             => /\ IsView(last'.result)
                /\ last'.result.profile = SESSIONS[id].profile
                /\ last'.result.status = SESSIONS[id].status
                /\ last'.result.conversation_turn = SESSIONS[id].conversation_turn
                /\ last'.result.created_at = SESSIONS[id].created_at
                /\ last'.result.updated_at = SESSIONS[id].updated_at
        /\ (last.op = "status" /\ Called("status", last.session_id))
           => last'.result = last.result
      ]_vars

\* A status call returned the view of a session that had been updated, while
\* another session is stored.
C13_Witness ==
    /\ last.op = "status"
    /\ IsView(last.result)
    /\ last.result.conversation_turn = 2
    /\ last.result.profile = SESSIONS[last.session_id].profile
    /\ DOMAIN SESSIONS # {last.session_id}

\* C14: a successful update of a stored session changes only its profile,
\* turn, updated_at and status; the session_id and created_at of a stored
\* session never change while it is stored; and a start, update or finalize
\* on one session leaves the record of every other stored session as it was.
C14_OnlyOwnSessionChanges ==
    [][ \A id \in DOMAIN SESSIONS \cap DOMAIN SESSIONS' :
          /\ SESSIONS'[id].session_id = SESSIONS[id].session_id
          /\ SESSIONS'[id].created_at = SESSIONS[id].created_at
          /\ ~ (Called("update", id) /\ ~ IsError(last'.result))
             => SESSIONS'[id] = SESSIONS[id]
      ]_vars

\* C15: every view returned by start, update or status carries the stored
\* profile of its session and the percentage, missing lists and prompt that
\* calculate_completeness and get_next_prompt give for that profile; the
\* percentage is 100 exactly when both missing lists are empty.
C15_CompletenessFresh ==
    (last.op \in {"start", "update", "status"} /\ IsView(last.result))
    => LET view == last.result
           c == calculate_completeness(view.profile)
       IN /\ last.session_id \in DOMAIN SESSIONS
          /\ view.profile = SESSIONS[last.session_id].profile
          /\ view.completeness_percentage = c.percentage
          /\ view.missing_required_fields = c.missing_required
          /\ view.missing_optional_fields = c.missing_optional
          /\ view.next_prompt = get_next_prompt(c.missing_required, c.missing_optional)
          /\ (view.completeness_percentage = 100)
             <=> (view.missing_required_fields = <<>>
                  /\ view.missing_optional_fields = <<>>)

\* An update returned a view of 100 percent with nothing missing.
C15_Witness ==
    /\ last.op = "update"
    /\ IsView(last.result)
    /\ last.result.completeness_percentage = 100
    /\ last.result.missing_required_fields = <<>>
    /\ last.result.missing_optional_fields = <<>>
    /\ has_field(SESSIONS[last.session_id].profile, "contact.mobile")

\* The values Python takes for false.
Falsy == { S(""), N(0), Null, B(FALSE), D(EmptyDict), L(<<>>) }
\* The dotted path resolves in the mapping: its first segment is a key, every
\* segment before the last holds a mapping that has the next segment as a
\* key, and the value under the last segment is not falsy.
Resolves(mapping, field_path) ==
    LET parts == Split(field_path)
        first == parts[1]
    IN /\ first \in DOMAIN mapping
       /\ IF Len(parts) = 1
          THEN mapping[first] \notin Falsy
          ELSE /\ IsDict(mapping[first])
               /\ parts[2] \in DOMAIN mapping[first].m
               /\ mapping[first].m[parts[2]] \notin Falsy

\* C16: calculate_completeness returns as missing_required and
\* missing_optional the required and the optional paths, in the order of the
\* configuration lists (6 and 4 paths), that do not resolve in the profile,
\* and as percentage floor(100 * (10 - both lengths) / 10), a multiple of 10
\* between 0 and 100.
C16_CompletenessValues ==
    last.op = "calculate_completeness"
    => LET profile == last.data
           Unresolved(field_path) == ~ Resolves(profile, field_path)
           r == last.result
       IN /\ Len(required_fields) = 6 /\ Len(optional_fields) = 4
          /\ r.missing_required = SelectSeq(required_fields, Unresolved)
          /\ r.missing_optional = SelectSeq(optional_fields, Unresolved)
          /\ r.percentage
               = (100 * (10 - Len(r.missing_required) - Len(r.missing_optional))) \div 10
          /\ r.percentage \in { 10 * k : k \in 0..10 }

\* calculate_completeness returned 80 percent for a profile whose street is
\* present but empty and whose state is null.
C16_Witness ==
    /\ last.op = "calculate_completeness"
    /\ last.result.percentage = 80
    /\ last.result.missing_required = <<"address.street">>
    /\ last.result.missing_optional = <<"address.state">>
    /\ {"street", "state"} \subseteq DOMAIN last.data.address.m
    /\ last.data.address.m.street = S("")
    /\ last.data.address.m.state = Null

\* C20: has_field answers true for a mapping and a dotted path exactly when
\* the path resolves (every segment before the last holds a mapping, the
\* value under the last is present and not falsy), and false otherwise: on a
\* missing segment, a value that is no mapping in the middle of the path, or
\* a falsy value at its end; the mapping is the same after the call.
C20_ResolverContract ==
    [][ last'.op = "has_field"
        => /\ last'.data = last.data
           /\ last'.result.found = Resolves(last.data, last'.result.field_path)
      ]_vars

\* has_field answered false because the address, in the middle of the path,
\* is a string.
C20_Witness ==
    /\ last.op = "has_field"
    /\ last.result.field_path = "address.street"
    /\ last.result.found = FALSE
    /\ "address" \in DOMAIN last.data
    /\ last.data.address = S("123 Main St")

\* The non-empty parts of the address of a profile, in the order street,
\* city, state, zipcode, country.
AddressLine(profile) ==
    LET address == profile.address.m
        order == <<"street", "city", "state", "zipcode", "country">>
        Kept(part) == part \in DOMAIN address /\ address[part] \notin Falsy
        kept == SelectSeq(order, Kept)
    IN [i \in 1..Len(kept) |-> address[kept[i]]]

\* C17: finalize of a stored session whose updates have supplied every
\* required field succeeds with total_turns the number of successful updates
\* plus one (the session's turn), customer_name the name of the profile and
\* address_formatted the non-empty address parts in the order street, city,
\* state, zipcode, country.
C17_FinalizeOfCompleteProfile ==
    [][ \A id \in DOMAIN SESSIONS :
          (Called("finalize", id) /\ Missing(SESSIONS[id].profile) = <<>>)
          => /\ IsSuccess(last'.result)
             /\ last'.result.total_turns = SESSIONS[id].conversation_turn
             /\ last'.result.customer_name = SESSIONS[id].profile.name
             /\ last'.result.address_formatted
                  = [i \in 1..Len(AddressLine(SESSIONS[id].profile)) |->
                       AddressLine(SESSIONS[id].profile)[i].v]
      ]_vars

\* Both threads of SpecRace have returned.
BothDone == \A i \in RaceThreads : threads[i].pc = "done"
\* The profile after the two updates one after the other, first then second.
Serial(first, second) ==
    merge_profile_data(merge_profile_data(InitialProfile(RaceProfile),
                                          threads[first].updates),
                       threads[second].updates)
\* The profile that holds the update of one thread only.
Only(i) == merge_profile_data(InitialProfile(RaceProfile), threads[i].updates)

\* C18: two update calls on the same session that run in two threads both
\* return a success view; the profile they leave is that of the two updates
\* one after the other or that of one update alone (the other is lost), and
\* the turn has risen by one or by two.
C18_RaceOutcomes ==
    BothDone
    => /\ \A i \in RaceThreads : IsView(threads[i].result)
       /\ SESSIONS[RaceId].profile \in { Serial(1, 2), Serial(2, 1), Only(1), Only(2) }
       /\ SESSIONS[RaceId].conversation_turn \in {2, 3}

\* The lost update: both calls returned a view, the stored profile holds the
\* address of the second call and not the email of the first, and the turn
\* rose by one only.
C18_Witness ==
    /\ BothDone
    /\ \A i \in RaceThreads : IsView(threads[i].result)
    /\ threads[1].updates = U_contact_info
    /\ threads[2].updates = U_address
    /\ "address" \in DOMAIN SESSIONS[RaceId].profile
    /\ "email" \notin DOMAIN SESSIONS[RaceId].profile
    /\ SESSIONS[RaceId].conversation_turn = 2

\* C19: for every JSON-object body the HTTP layer answers start with 201
\* and the session view; update, finalize and status on an id the store
\* does not hold with 404; finalize of a profile with missing required
\* fields with 400 and a body that lists them; and every other update,
\* finalize and status with 200.
C19_HttpStatusCodes ==
    [][ LET r == http'
            known == r.session_id \in DOMAIN SESSIONS
        IN /\ r.route = "start" => (r.status = 201 /\ IsView(r.body))
           /\ (r.route \in {"update", "finalize", "status"} /\ ~ known)
              => r.status = 404
           /\ (r.route \in {"update", "status"} /\ known) => r.status = 200
           /\ (r.route = "finalize" /\ known)
              => IF Missing(SESSIONS[r.session_id].profile) # <<>>
                 THEN /\ r.status = 400
                      /\ "missing_fields" \in DOMAIN r.body
                      /\ r.body.missing_fields = Missing(SESSIONS[r.session_id].profile)
                 ELSE r.status = 200
      ]_vars

\* The paths that have a prompt of their own.
Prompted ==
    {"name", "email", "type", "address.street", "address.city", "address.country"}

\* C21: the prompt is the 'profile complete' message exactly when both lists
\* are empty; with a non-empty missing_required it is the prompt of the
\* first element alone, whatever follows it and whatever missing_optional
\* holds ("Please provide: <path>" for a path without a prompt of its own);
\* with only missing_optional non-empty it is the optional-contact prompt.
C21_PromptOfFirstMissing ==
    last.op = "get_next_prompt"
    => LET r == last.data.missing_required
           o == last.data.missing_optional
           prompt == last.result.next_prompt
       IN /\ (prompt = <<"Profile complete! Ready to submit?">>)
             <=> (r = <<>> /\ o = <<>>)
          /\ r # <<>>
             => /\ prompt = get_next_prompt(<<r[1]>>, <<>>)
                /\ r[1] \notin Prompted => prompt = <<"Please provide: ", r[1]>>
                /\ r[1] = "email" => prompt = <<"Great! What's your email address?">>
                /\ r[1] = "name" => prompt = <<"What's your name?">>
          /\ (r = <<>> /\ o # <<>>)
             => prompt = <<"Would you like to add contact information? (optional)">>

\* The prompt asked for a first missing path that has no prompt of its own,
\* with a second required path and an optional path missing too.
C21_Witness ==
    /\ last.op = "get_next_prompt"
    /\ last.data.missing_required = <<"nickname", "name">>
    /\ last.data.missing_optional = <<"contact.phone">>
    /\ last.result.next_prompt = <<"Please provide: ", "nickname">>

\* C22: after every step a stored session whose status is in_progress has a
\* required field missing from its profile, and a finalize returns the
\* success result only for a session whose status is complete.
C22_InProgressMeansMissing ==
    [][ /\ \A id \in DOMAIN SESSIONS' :
             SESSIONS'[id].status = "in_progress" => Missing(SESSIONS'[id].profile) # <<>>
        /\ \A id \in DOMAIN SESSIONS :
             (Called("finalize", id) /\ IsSuccess(last'.result))
             => SESSIONS[id].status = "complete"
      ]_vars

\* A finalize returned the success result for a session (gone from the
\* store) that two updates had completed.
C22_Witness ==
    /\ last.op = "finalize"
    /\ IsSuccess(last.result)
    /\ last.result.total_turns = 3
    /\ last.session_id \notin DOMAIN SESSIONS

\* C23: the clock never goes back in the model, and then every stored
\* session has created_at <= updated_at; a start sets created_at and then
\* updated_at from the clock; afterwards created_at stays and updated_at
\* changes only in a successful update of the session, which sets it to the
\* clock; the time a successful finalize reports is the whole minutes of
\* the span from created_at to updated_at, which is not negative.
C23_Timestamps ==
    [][ /\ now' >= now
        /\ \A id \in DOMAIN SESSIONS' :
             /\ SESSIONS'[id].created_at <= SESSIONS'[id].updated_at
             /\ Called("start", id)
                => /\ SESSIONS'[id].created_at \in now..now'
                   /\ SESSIONS'[id].updated_at = now'
        /\ \A id \in DOMAIN SESSIONS \cap DOMAIN SESSIONS' :
             ~ Called("start", id)
             => /\ SESSIONS'[id].created_at = SESSIONS[id].created_at
                /\ IF Called("update", id) /\ ~ IsError(last'.result)
                   THEN SESSIONS'[id].updated_at = now'
                   ELSE SESSIONS'[id].updated_at = SESSIONS[id].updated_at
        /\ \A id \in DOMAIN SESSIONS :
             (Called("finalize", id) /\ IsSuccess(last'.result))
             => LET seconds == (SESSIONS[id].updated_at - SESSIONS[id].created_at)
                                 * SecondsPerTick
                    minutes == last'.result.time_to_complete.minutes
                IN /\ minutes >= 0
                   /\ minutes * 60 <= seconds
                   /\ seconds < (minutes + 1) * 60
      ]_vars

\* A finalize reported one minute for a session created at tick 0 and last
\* updated at tick 1, after the clock had been read again.
C23_Witness ==
    /\ last.op = "finalize"
    /\ IsSuccess(last.result)
    /\ last.result.time_to_complete = [minutes |-> 1, unit |-> "minute"]
    /\ last.result.finalized_at = 1

\* The truthy entries of a profile that finalize counts: a top-level key
\* whose value is no mapping, or a key of a top-level mapping.
Collected(profile) ==
    { <<k>> : k \in { k \in DOMAIN profile :
                        ~ IsDict(profile[k]) /\ profile[k] \notin Falsy } }
    \cup UNION { { <<k, j>> : j \in { j \in DOMAIN profile[k].m :
                                        profile[k].m[j] \notin Falsy } } :
                 k \in { k \in DOMAIN profile : IsDict(profile[k]) } }

C25_SameUpdateTwice ==
    [][ \A id \in DOMAIN SESSIONS :
          (Called("update", id) /\ ~ IsError(last'.result))
          => /\ merge_profile_data(SESSIONS'[id].profile, last'.data)
                  = SESSIONS'[id].profile
             /\ (last.op = "update" /\ last.session_id = id /\ ~ IsError(last.result)
                 /\ last.data = last'.data)
                => /\ SESSIONS'[id].profile = SESSIONS[id].profile
                   /\ SESSIONS'[id].status = SESSIONS[id].status
                   /\ SESSIONS'[id].conversation_turn = SESSIONS[id].conversation_turn + 1
                   /\ SESSIONS'[id].updated_at = now'
                   /\ SESSIONS'[id].session_id = SESSIONS[id].session_id
                   /\ SESSIONS'[id].created_at = SESSIONS[id].created_at
      ]_vars

\* The update that empties the street was applied twice in a row to a
\* session just started: the profile holds the name and the empty street
\* only, at turn 3.
C25_Witness ==
    /\ last.op = "update"
    /\ IsView(last.result)
    /\ last.data = U_street_empty
    /\ last.result.conversation_turn = 3
    /\ DOMAIN last.result.profile = {"name", "address"}
    /\ last.result.profile.address = D([street |-> S("")])
    /\ last.result.status = "in_progress"


RECURSIVE Clash(_, _, _)
\* At some key path the profile and the second update hold mappings and the
\* first update holds a value that is no mapping.
Clash(profile, first, second) ==
    \E k \in DOMAIN profile \cap DOMAIN first \cap DOMAIN second :
        /\ IsDict(profile[k])
        /\ IsDict(second[k])
        /\ \/ ~ IsDict(first[k])
           \/ Clash(profile[k].m, first[k].m, second[k].m)

CallsDone == \A i \in RaceThreads : threads.calls[i].pc = "done"
\* Both calls of SpecRaceEnd are finalize calls.
TwoFinalizes == \A i \in RaceThreads : threads.calls[i].kind = "finalize"

\* C27: of two finalize calls on the same complete session that run in two
\* threads at most one returns the success result; when both have ended one
\* has returned it, the other has returned SESSION_NOT_FOUND or raised
\* KeyError at the lookup or the del, and the store no longer holds the id.
C27_OneFinalizeSucceeds ==
    TwoFinalizes
    => /\ ~ \A i \in RaceThreads :
              threads.calls[i].pc \in {"return", "done"}
              /\ IsSuccess(threads.calls[i].result)
       /\ CallsDone
          => /\ \E i \in RaceThreads :
                  /\ IsSuccess(threads.calls[i].result)
                  /\ \A j \in RaceThreads \ {i} :
                       threads.calls[j].result
                         \in { SessionNotFound, [raised |-> "KeyError"] }
             /\ RaceId \notin DOMAIN SESSIONS

\* Both finalize calls built their result; the second found the session gone
\* at its del and raised KeyError.
C27_Witness ==
    /\ TwoFinalizes
    /\ CallsDone
    /\ IsSuccess(threads.calls[1].result)
    /\ threads.calls[2].result = [raised |-> "KeyError"]
    /\ last.op = "finalize"
    /\ "raised" \in DOMAIN last.result

\* C28: an update that runs while a finalize of the same id runs returns a
\* success view only while the store holds the session, and the store then
\* holds the profile of that view.
C28_NoUpdateAfterRemoval ==
    [][ \A i \in RaceThreads :
          (/\ At(i, "update", "return")
           /\ threads'.calls[i].pc = "done"
           /\ IsView(threads'.calls[i].result))
          => /\ RaceId \in DOMAIN SESSIONS
             /\ SESSIONS[RaceId].profile = threads'.calls[i].result.profile
      ]_vars

\* The employee ids of the entries of a reporting chain.
ChainIdsOf(chain) == [i \in 1..Len(chain) |-> chain[i].employee_id]
\* No value occurs twice in the sequence.
NoRepeat(seq) == \A i, j \in 1..Len(seq) : seq[i] = seq[j] => i = j

\* The reporting chain never has more than MaxDepth + 1 entries, none of its
\* employee ids occurs twice, hierarchy_levels is the number of its entries,
\* and the result carries hierarchy_levels when it is above 1.
ChainBounded ==
    /\ Len(threads.reporting_chain) <= MaxDepth + 1
    /\ NoRepeat(ChainIdsOf(threads.reporting_chain))
    /\ threads.hierarchy_levels = Len(threads.reporting_chain)
    /\ (threads.pc = "done" /\ "reporting_chain" \in DOMAIN threads.result)
       => /\ threads.result.reporting_chain = threads.reporting_chain
          /\ ("hierarchy_levels" \in DOMAIN threads.result)
             <=> threads.hierarchy_levels > 1
          /\ "hierarchy_levels" \in DOMAIN threads.result
             => threads.result.hierarchy_levels = Len(threads.reporting_chain)
          /\ ("warning" \in DOMAIN threads.result
              /\ threads.result.warning
                   = "Management hierarchy exceeds maximum depth of 10 levels")
             <=> Len(threads.reporting_chain) = MaxDepth + 1
          /\ ("warning" \in DOMAIN threads.result
              /\ threads.result.warning
                   = "Circular reference detected in management chain")
             => ChainEntry(threads.current).employee_id
                  \in { threads.reporting_chain[i].employee_id :
                          i \in 1..Len(threads.reporting_chain) }

\* C29: the traversal of the manager chain ends for every input, and at all
\* times the reporting chain has at most 11 entries, no employee_id twice,
\* and as many entries as hierarchy_levels says; the depth warning is set
\* exactly when the chain has reached 11 entries, the circular warning only
\* at a manager whose id is in the chain already.
C29_TraversalEnds == [] ChainBounded /\ <> (threads.pc = "done")

\* The traversal stopped by the depth limit: 11 entries, the twelfth person
\* of the input not among them.
C29_Witness ==
    /\ threads.pc = "done"
    /\ Len(last.data.ids) = 12
    /\ Len(threads.reporting_chain) = 11
    /\ threads.result.hierarchy_levels = 11
    /\ threads.result.warning = "Management hierarchy exceeds maximum depth of 10 levels"

\* ---------------------------------------------------------------- C30
\* The value under key of a mapping, None where v is no mapping or lacks key.
Under(v, key) == IF IsDict(v) /\ key \in DOMAIN v.m THEN v.m[key] ELSE Null

\* The value of the body at each of the four enum fields.
EnumField(data, field_path) ==
    CASE field_path = "status" -> Under(D(data), "status")
      [] field_path = "customer.type" -> Under(Under(D(data), "customer"), "type")
      [] field_path = "customer.address.country" ->
             Under(Under(Under(D(data), "customer"), "address"), "country")
      [] field_path = "customer.contact.preference" ->
             Under(Under(Under(D(data), "customer"), "contact"), "preference")

EnumAllowed(field_path) ==
    CASE field_path = "status" -> {"active", "inactive"}
      [] field_path = "customer.type" -> {"individual", "corporate"}
      [] field_path = "customer.address.country" -> {"US", "CA", "UK"}
      [] field_path = "customer.contact.preference" -> {"email", "phone", "sms"}

\* A field fails when its value is not in its allowed set; the preference
\* fails only when it is provided non-empty.
EnumFails(data, field_path) ==
    LET value == EnumField(data, field_path)
        allowed == IsStr(value) /\ value.v \in EnumAllowed(field_path)
    IN IF field_path = "customer.contact.preference"
       THEN Truthy(value) /\ ~ allowed
       ELSE ~ allowed

\* The failing fields of a body in nesting-level order 0 to 3.
EnumFailing(data) ==
    SelectSeq(<<"status", "customer.type", "customer.address.country",
                "customer.contact.preference">>,
              LAMBDA field_path : EnumFails(data, field_path))

\* C30 (as stated): create_multi_level_enum_profile returns success = true
\* exactly when no enum field of the body fails, and otherwise returns
\* ENUM_VALIDATION_ERROR whose validation_failures are the failing fields, each
\* once, in nesting-level order, each with its own level; the HTTP layer
\* answers 201 on success and 400 on failure.  The code violates it: a
\* customer, address or contact that is no mapping, and a truthy address part
\* that is no string when every enum is valid, make the function raise and the
\* HTTP layer answer 500.
C30_EnumOutcome ==
    /\ http.route = "multi-level-enum" =>
           http.status = IF EnumFailing(http.data) = <<>> THEN 201 ELSE 400
    /\ last.op = "create_multi_level_enum_profile" =>
           LET failing == EnumFailing(last.data)
               result == last.result
           IN /\ "success" \in DOMAIN result
              /\ result.success <=> failing = <<>>
              /\ ~ result.success =>
                     /\ result.error = "ENUM_VALIDATION_ERROR"
                     /\ Len(result.validation_failures) = Len(failing)
                     /\ \A i \in 1..Len(failing) :
                            /\ result.validation_failures[i].field_path = failing[i]
                            /\ result.validation_failures[i].nesting_level =
                                   CHOOSE n \in 0..3 :
                                       <<"status", "customer.type",
                                         "customer.address.country",
                                         "customer.contact.preference">>[n + 1] = failing[i]

====
